---- MODULE Spec2Model ----
(***************************************************************************)
(* Model of luceroquispe/async-sdk-engine: the request descriptor          *)
(* (RequestInfo), the trio based dispatcher (AsyncHandler) and the         *)
(* synchronous facade (Requests.client_requests) of src/http_requests.py,  *)
(* and the error classification of src/errors.py.                          *)
(*                                                                         *)
(* One batch is a trio nursery with one make_request task per descriptor.  *)
(* trio is cooperative: a task runs without interruption from one          *)
(* checkpoint to the next, so every action below is one such span.  The    *)
(* checkpoints of make_request are the acquisition of the CapacityLimiter  *)
(* and the awaited transport call.                                         *)
(***************************************************************************)
EXTENDS Integers, Sequences, FiniteSets, TLC

VARIABLES
    raise_on_error,  \* Requests.raise_on_error, copied to AsyncHandler
    phase,           \* position of client_requests: idle, running, returned, raised
    single,          \* TRUE when client_requests was given one bare RequestInfo
    requests,        \* the batch handed to send_requests
    pc,              \* position of each make_request task
    outcome,         \* value each suspended task is resumed with
    borrowers,       \* CapacityLimiter._borrowers
    lot,             \* CapacityLimiter._lot, the FIFO of parked tasks
    cancelled,       \* nursery.cancel_scope.cancel_called
    pending_excs,    \* nursery._pending_excs, in the order they were added
    responses,       \* AsyncHandler.responses
    sent,            \* the transport operation each task invoked, with its arguments
    at_stop,         \* history: position of each task when the first failure was raised
    result,          \* what client_requests returned or raised
    info,            \* the last RequestInfo constructed, with its arguments
    ctor,            \* history: the arguments ApiClient was constructed with
    client,          \* attributes of the ApiClient
    settings,        \* attributes of its Requests, raise_on_error apart
    handler,         \* attributes of the AsyncHandler of the current call
    calls,           \* history: how the earlier client_requests calls ended
    waited,          \* history: the tasks that parked and have not begun their call, in order
    api_error,       \* the last ApiError constructed, with the response it was given
    wire             \* the last descriptor dispatched, with the transport call made for it

vars == <<raise_on_error, phase, single, requests, pc, outcome, borrowers, lot,
          cancelled, pending_excs, responses, sent, at_stop, result, info,
          ctor, client, settings, handler, calls, waited, api_error, wire>>

\* the variables of the operations that are checked one input at a time
purevars == <<info, api_error, wire>>

batchvars == <<raise_on_error, phase, single, requests, pc, outcome, borrowers, lot,
               cancelled, pending_excs, responses, sent, at_stop, result,
               ctor, client, settings, handler, calls, waited>>

----------------------------------------------------------------------------
(* Bounds *)

\* largest batch handed to client_requests
MaxBatch == 3

\* number of client_requests calls made on one client
MaxCalls == 2

\* largest batch of a client that makes several calls
MaxClientBatch == 2

\* capacity of the limiter; stands for trio.CapacityLimiter(50), scaled down
\* so that a batch of MaxBatch descriptors exceeds it
MaxConcurrency == 2

\* the largest number of tasks of a nursery: those of the largest batch, and
\* no fewer than those of a batch that parks two tasks
MaxTasks == IF MaxBatch > MaxConcurrency + 2 THEN MaxBatch ELSE MaxConcurrency + 2

Tasks == 1..MaxTasks

None == "None"

----------------------------------------------------------------------------
(* Strings that the code transforms are sequences of character codes *)

toupper(c) == IF c \in 97..122 THEN c - 32 ELSE c

\* str.upper()
upper(s) == [k \in 1..Len(s) |-> toupper(s[k])]

GET == <<71, 69, 84>>
POST == <<80, 79, 83, 84>>
PUT == <<80, 85, 84>>
PATCH == <<80, 65, 84, 67, 72>>
DELETE == <<68, 69, 76, 69, 84, 69>>
OPTIONS == <<79, 80, 84, 73, 79, 78, 83>>

\* str.lower(), used only to write the inputs below
lower(s) == [k \in 1..Len(s) |-> IF s[k] \in 65..90 THEN s[k] + 32 ELSE s[k]]

\* "Get", "Delete", ...: first letter upper case, the rest lower case
capitalize(s) == [k \in 1..Len(s) |-> IF k = 1 THEN s[k] ELSE lower(s)[k]]

MethodNames ==
    {GET, POST, PUT, PATCH, DELETE, OPTIONS, <<>>}
    \cup {lower(m) : m \in {GET, POST, PUT, PATCH, DELETE}}
    \cup {capitalize(m) : m \in {GET, POST, DELETE}}

Paths == {"/path", "anything"}
Params == {None, "param1=value1"}
Bodies == {None, "body content", "{key: value}"}

----------------------------------------------------------------------------
(* RequestInfo *)

\* variant: the method is compared without upper()
RequestInfo_exact_case(method, path, params, body) ==
    [method |-> method,
     path   |-> path,
     params |-> params,
     body   |-> IF method \in {GET, DELETE} THEN None ELSE body]

\* variant: POST is listed among the methods without a body
RequestInfo_post_too(method, path, params, body) ==
    [method |-> method,
     path   |-> path,
     params |-> params,
     body   |-> IF upper(method) \in {GET, DELETE, POST} THEN None ELSE body]

\* RequestInfo.__new__
RequestInfo(method, path, params, body) ==
    [method |-> method,
     path   |-> path,
     params |-> params,
     body   |-> IF upper(method) \in {GET, DELETE} THEN None ELSE body]

----------------------------------------------------------------------------
(* Transport: what a call can complete with *)

\* status codes the server can answer with
Statuses == {200, 301, 400, 499, 500, 599}

\* httpx exceptions make_request converts to CommunicationError
CaughtErrors == {"ConnectError", "ConnectTimeout", "RemoteProtocolError"}

\* httpx exceptions the transport can raise
TransportErrors == CaughtErrors \cup {"ReadTimeout"}

NoOutcome == [kind |-> "none", status |-> 0, content |-> <<>>, exc |-> None]
CancelledOut == [kind |-> "Cancelled", status |-> 0, content |-> <<>>, exc |-> None]
ResponseOut(s, c) == [kind |-> "response", status |-> s, content |-> c, exc |-> None]
ExcOut(e) == [kind |-> "exc", status |-> 0, content |-> <<>>, exc |-> e]

\* httpx.Response.is_success, which raise_for_status tests
is_success(status) == status \in 200..299

\* httpx.Response.is_client_error
is_client_error(status) == status \in 400..499

\* httpx.Response.is_server_error
is_server_error(status) == status \in 500..599

----------------------------------------------------------------------------
(* Response bodies are sequences of bytes; json.loads is modelled for the   *)
(* JSON of the bodies below: objects, arrays, strings without escapes,      *)
(* unsigned integers and null, with blanks between tokens.  A byte above    *)
(* 127 stands for a body that is not UTF-8, as the only such bytes used are *)
(* lone Latin-1 letters.                                                    *)

\* '{"errors": "bad field"}'
BodyErrors == <<123, 34, 101, 114, 114, 111, 114, 115, 34, 58, 32, 34, 98, 97, 100, 32, 102, 105, 101, 108, 100, 34, 125>>
\* '{"code": 7, "errors": ["a", "b"]}'
BodyErrorsList == <<123, 34, 99, 111, 100, 101, 34, 58, 32, 55, 44, 32, 34, 101, 114, 114, 111, 114, 115, 34, 58, 32, 91, 34, 97, 34, 44, 32, 34, 98, 34, 93, 125>>
\* '{"message": "bad"}'
BodyMessage == <<123, 34, 109, 101, 115, 115, 97, 103, 101, 34, 58, 32, 34, 98, 97, 100, 34, 125>>
\* '[1, "x"]'
BodyList == <<91, 49, 44, 32, 34, 120, 34, 93>>
\* '42'
BodyNumber == <<52, 50>>
\* 'null'
BodyNull == <<110, 117, 108, 108>>
\* 'oops'
BodyText == <<111, 111, 112, 115>>
\* '{"errors": "bad'
BodyBroken == <<123, 34, 101, 114, 114, 111, 114, 115, 34, 58, 32, 34, 98, 97, 100>>
\* 'caf\xe9'
BodyLatin1 == <<99, 97, 102, 233>>
\* 'errors'
ErrorsKey == <<101, 114, 114, 111, 114, 115>>

BodyEmpty == <<>>

ResponseBodies ==
    {BodyEmpty, BodyErrors, BodyErrorsList, BodyMessage, BodyList, BodyNumber,
     BodyNull, BodyText, BodyBroken, BodyLatin1}

\* bytes.decode("utf-8") succeeds
valid_utf8(b) == \A k \in 1..Len(b) : b[k] < 128

\* the character at p, 0 past the end
char_at(s, p) == IF p \in 1..Len(s) THEN s[p] ELSE 0

\* first position at or after p that holds no blank
RECURSIVE skip_blanks(_, _)
skip_blanks(s, p) == IF char_at(s, p) = 32 THEN skip_blanks(s, p + 1) ELSE p

\* position after the string that opens at p, 0 when it is not closed
RECURSIVE scan_string(_, _)
scan_string(s, p) ==
    IF p + 1 > Len(s) THEN 0
    ELSE IF s[p + 1] = 34 THEN p + 2
    ELSE scan_string(s, p + 1)

\* position after the digits that start at p
RECURSIVE scan_digits(_, _)
scan_digits(s, p) == IF char_at(s, p) \in 48..57 THEN scan_digits(s, p + 1) ELSE p

\* position after the JSON value that starts at or after p, 0 when there is none
RECURSIVE scan_value(_, _)
RECURSIVE scan_elements(_, _)
RECURSIVE scan_members(_, _)
scan_value(s, p) ==
    LET q == skip_blanks(s, p)
        c == char_at(s, q)
    IN IF c = 34 THEN scan_string(s, q)
       ELSE IF c \in 48..57 THEN scan_digits(s, q)
       ELSE IF c = 110
       THEN IF <<char_at(s, q + 1), char_at(s, q + 2), char_at(s, q + 3)>> = <<117, 108, 108>>
            THEN q + 4 ELSE 0
       ELSE IF c = 91
       THEN IF char_at(s, skip_blanks(s, q + 1)) = 93 THEN skip_blanks(s, q + 1) + 1
            ELSE scan_elements(s, q + 1)
       ELSE IF c = 123
       THEN IF char_at(s, skip_blanks(s, q + 1)) = 125 THEN skip_blanks(s, q + 1) + 1
            ELSE scan_members(s, q + 1)
       ELSE 0

\* position after the "]" that closes the elements starting at p
scan_elements(s, p) ==
    LET e == scan_value(s, p)
        q == skip_blanks(s, e)
    IN IF e = 0 THEN 0
       ELSE IF char_at(s, q) = 44 THEN scan_elements(s, q + 1)
       ELSE IF char_at(s, q) = 93 THEN q + 1
       ELSE 0

\* position after the "}" that closes the members starting at p
scan_members(s, p) ==
    LET k  == skip_blanks(s, p)
        ke == IF char_at(s, k) = 34 THEN scan_string(s, k) ELSE 0
        c  == skip_blanks(s, ke)
        e  == IF ke # 0 /\ char_at(s, c) = 58 THEN scan_value(s, c + 1) ELSE 0
        q  == skip_blanks(s, e)
    IN IF e = 0 THEN 0
       ELSE IF char_at(s, q) = 44 THEN scan_members(s, q + 1)
       ELSE IF char_at(s, q) = 125 THEN q + 1
       ELSE 0

\* the whole text is one JSON value
is_json(s) ==
    LET e == scan_value(s, 1) IN e # 0 /\ skip_blanks(s, e) = Len(s) + 1

\* Python values: their type and their text
PyNone == [t |-> "NoneType", text |-> <<>>]
PyStr(text) == [t |-> "str", text |-> text]
PyRaise(exc) == [t |-> exc, text |-> <<>>]

\* the Python value of the JSON value that occupies s[a..b-1]
py_value(s, a, b) ==
    LET c == s[a] IN
    IF c = 34 THEN PyStr(SubSeq(s, a + 1, b - 2))
    ELSE IF c \in 48..57 THEN [t |-> "int", text |-> SubSeq(s, a, b - 1)]
    ELSE IF c = 110 THEN PyNone
    ELSE IF c = 91 THEN [t |-> "list", text |-> SubSeq(s, a, b - 1)]
    ELSE [t |-> "dict", text |-> SubSeq(s, a, b - 1)]

\* dict.get(key) on the object whose members start at p: the value of the
\* last member named key, None when there is none
RECURSIVE dict_get(_, _, _, _)
dict_get(s, p, key, found) ==
    LET k  == skip_blanks(s, p)
        ke == scan_string(s, k)
        v  == skip_blanks(s, skip_blanks(s, ke) + 1)
        e  == scan_value(s, v)
        q  == skip_blanks(s, e)
        now == IF SubSeq(s, k + 1, ke - 2) = key THEN py_value(s, v, e) ELSE found
    IN IF char_at(s, k) # 34 THEN found
       ELSE IF char_at(s, q) = 44 THEN dict_get(s, q + 1, key, now)
       ELSE now

\* json.loads(bytes): the value, or the exception it raises
loads(b) ==
    IF ~valid_utf8(b) THEN PyRaise("UnicodeDecodeError")
    ELSE IF ~is_json(b) THEN PyRaise("JSONDecodeError")
    ELSE py_value(b, skip_blanks(b, 1), scan_value(b, 1))

\* ApiError.is_jsonable: only JSONDecodeError is caught, any other exception
\* of loads leaves the method
is_jsonable(b) ==
    LET v == loads(b) IN
    IF v.t = "JSONDecodeError" THEN "False"
    ELSE IF v.t = "UnicodeDecodeError" THEN "UnicodeDecodeError"
    ELSE "True"

\* ApiError.error_parse_json_or_utf8
error_parse_json_or_utf8(response_content) ==
    LET j == is_jsonable(response_content)
        error == loads(response_content)
    IN IF j \notin {"True", "False"} THEN PyRaise(j)
       ELSE IF j = "False"
       THEN IF valid_utf8(response_content) THEN PyStr(response_content)
            ELSE PyRaise("UnicodeDecodeError")
       ELSE IF error.t = "dict"
       THEN dict_get(response_content, skip_blanks(response_content, 1) + 1, ErrorsKey, PyNone)
       ELSE error

\* ApiError.__init__, lines 29-31: the errors attribute
api_error_errors(content) ==
    IF content # <<>> THEN error_parse_json_or_utf8(content) ELSE PyStr(<<>>)

----------------------------------------------------------------------------
(* errors.py *)

\* variant: the server-error branch is missing
find_error_type_client_only(status) ==
    IF is_client_error(status) \/ is_server_error(status) THEN "Client error"
    ELSE "Not a request error. The  error handling has a bug"

\* ApiError.find_error_type_from_response
find_error_type_from_response(status) ==
    IF is_client_error(status) THEN "Client error"
    ELSE IF is_server_error(status) THEN "Server error"
    ELSE "Not a request error. The  error handling has a bug"

\* CommunicationError(str(err))
CommunicationError(req, e) ==
    [type |-> "CommunicationError", message |-> e, status_code |-> 0,
     error_type |-> None, errors |-> PyNone, req |-> req]

\* no exception
NoError ==
    [type |-> None, message |-> None, status_code |-> 0, error_type |-> None,
     errors |-> PyNone, req |-> 0]

\* an exception that no except clause of make_request names
Uncaught(req, e) ==
    [type |-> e, message |-> e, status_code |-> 0, error_type |-> None,
     errors |-> PyNone, req |-> req]

\* ApiError(str(err), response) for the response to request req: the error
\* constructed, or the exception that leaves ApiError.__init__
ApiError(req, status, content) ==
    LET errors == api_error_errors(content) IN
    IF errors.t = "UnicodeDecodeError" THEN Uncaught(req, "UnicodeDecodeError")
    ELSE [type |-> "ApiError", message |-> None, status_code |-> status,
          error_type |-> find_error_type_from_response(status),
          errors |-> errors, req |-> req]

\* the responses the server can answer with: every status without a body,
\* and a server error whose body is not UTF-8
ServerResponses ==
    {ResponseOut(s, BodyEmpty) : s \in Statuses} \cup {ResponseOut(500, BodyLatin1)}

\* what a transport call can complete with
CallOutcomes == ServerResponses \cup {ExcOut(e) : e \in TransportErrors}

----------------------------------------------------------------------------
(* AsyncHandler *)

\* variant: the name is looked up without upper()
get_method_by_name_exact(method_name) ==
    IF method_name = GET THEN "get"
    ELSE IF method_name = POST THEN "post"
    ELSE IF method_name = PUT THEN "put"
    ELSE IF method_name = PATCH THEN "patch"
    ELSE IF method_name = DELETE THEN "delete"
    ELSE "get"

\* AsyncHandler.get_method_by_name: the name of the AsyncClient method chosen
get_method_by_name(method_name) ==
    LET u == upper(method_name) IN
    IF u = GET THEN "get"
    ELSE IF u = POST THEN "post"
    ELSE IF u = PUT THEN "put"
    ELSE IF u = PATCH THEN "patch"
    ELSE IF u = DELETE THEN "delete"
    ELSE "get"

NoCall == [op |-> None, path |-> None, params |-> None, json |-> "absent"]

\* variant: every method is given the body
transport_call_json(op, req) ==
    [op |-> op, path |-> req.path, params |-> req.params, json |-> req.body]

\* the call make_request awaits: get and delete are given params only
transport_call(op, req) ==
    [op |-> op, path |-> req.path, params |-> req.params,
     json |-> IF op \in {"get", "delete"} THEN "absent" ELSE req.body]

\* variant: RemoteProtocolError left out of the except clause
is_caught_two(e) == e \in {"ConnectError", "ConnectTimeout"}

\* the except clause of make_request: is this transport exception converted
is_caught(e) == e \in CaughtErrors

\* variant: raise_on_error raises for every response
raises_api_error_any_status(roe, status) == roe

\* variant: raise_for_status called whatever raise_on_error is
raises_api_error_always(roe, status) == ~is_success(status)

\* the raise_on_error test of make_request followed by raise_for_status
raises_api_error(roe, status) == roe /\ ~is_success(status)

\* variant: off by one in the capacity test
can_acquire_nowait_off(b, l) == Cardinality(b) <= MaxConcurrency /\ l = <<>>

\* CapacityLimiter.acquire_on_behalf_of_nowait succeeds
can_acquire_nowait(b, l) == Cardinality(b) < MaxConcurrency /\ l = <<>>

\* variant: a released token is left for the next acquire
wake_count_none(b, l) == 0

\* number of parked tasks CapacityLimiter._wake_waiters unparks after b remain
wake_count(b, l) ==
    LET available == MaxConcurrency - Cardinality(b) IN
    IF available <= 0 THEN 0
    ELSE IF available < Len(l) THEN available ELSE Len(l)

\* variant: the first element is taken from a list of at most one response
return_value_at_most_one(resps) ==
    IF Len(resps) <= 1 THEN [kind |-> "single", excs |-> <<>>, value |-> resps]
    ELSE [kind |-> "list", excs |-> <<>>, value |-> resps]

\* variant: the list is returned whatever its length
return_value_list(resps) == [kind |-> "list", excs |-> <<>>, value |-> resps]

\* the value client_requests returns from AsyncHandler.responses
return_value(resps) ==
    IF Len(resps) = 1 THEN [kind |-> "single", excs |-> <<>>, value |-> <<resps[1]>>]
    ELSE [kind |-> "list", excs |-> <<>>, value |-> resps]

\* the httpx.Response that the call of request i returned as o
Response(i, o) == [req |-> i, status |-> o.status, content |-> o.content]

\* variant: the response is appended twice
append_response_twice(resps, i, o) == Append(Append(resps, Response(i, o)), Response(i, o))

\* variant: the list is replaced instead of extended
append_response_replace(resps, i, o) == <<Response(i, o)>>

\* self.responses.append(response)
append_response(resps, i, o) == Append(resps, Response(i, o))

\* variant: a call that ignores the cancellation of the scope it starts in
entry_outcome_shielded(c) == NoOutcome

\* what the transport call of a task starts with: send_requests builds a
\* plain AsyncClient, whose calls reach a trio checkpoint before any byte is
\* sent, so under a cancelled scope the call ends there with Cancelled
entry_outcome(c) == IF c THEN CancelledOut ELSE NoOutcome

NoResult == [kind |-> "none", excs |-> <<>>, value |-> <<>>]

----------------------------------------------------------------------------
(* The state machine of one client_requests call *)

\* the descriptor the caller puts at position k of a batch: the methods
\* alternate between one that drops the body, one that keeps it, one that
\* no transport operation is named after, and one in mixed case
BatchRequest(k) ==
    LET m == CASE k % 4 = 1 -> lower(GET)
               [] k % 4 = 2 -> POST
               [] k % 4 = 3 -> OPTIONS
               [] OTHER     -> capitalize(DELETE)
    IN RequestInfo(m, "/path", None, "body content")

\* the batches of at most MaxBatch descriptors
Batches == {[k \in 1..n |-> BatchRequest(k)] : n \in 0..MaxBatch}

\* constructor arguments: the defaults of Requests.__init__ and other values
BaseUrls == {"https://httpbin.org/", "http://test.com"}
Timeouts == {15, 5}

AllArgs ==
    [base_url : BaseUrls, verify : BOOLEAN, timeout : Timeouts, raise_on_error : BOOLEAN]

\* the arguments that leave base_url, verify and timeout at their defaults
DefaultArgs == {a \in AllArgs : a.base_url = "https://httpbin.org/" /\ ~a.verify /\ a.timeout = 15}

\* Requests.__init__
Requests_init(base_url, verify, timeout, roe) ==
    [base_url |-> base_url, verify |-> verify, timeout |-> timeout, raise_on_error |-> roe]

\* ApiClient.__init__: its own attributes
ApiClient_init(base_url, verify, timeout, roe) ==
    [base_url |-> base_url, verify |-> verify, timeout |-> timeout, raise_on_error |-> roe]

\* variant: raise_on_error left at its default
AsyncHandler_init_default_roe(base_url, timeout, verify, roe) ==
    [made |-> TRUE, base_url |-> base_url, timeout |-> timeout, verify |-> verify,
     raise_on_error |-> TRUE]

\* AsyncHandler.__init__
AsyncHandler_init(base_url, timeout, verify, roe) ==
    [made |-> TRUE, base_url |-> base_url, timeout |-> timeout, verify |-> verify,
     raise_on_error |-> roe]

NoHandler ==
    [made |-> FALSE, base_url |-> None, timeout |-> 0, verify |-> FALSE,
     raise_on_error |-> FALSE]

\* variant: the list of an earlier handler is kept
new_responses_shared(old) == old

\* AsyncHandler.__init__, line 93: the handler starts with an empty list
new_responses(old) == <<>>

NoApiError == [made |-> FALSE, status |-> 0, content |-> <<>>, err |-> NoError]

NoWire == [made |-> FALSE,
           req  |-> [method |-> <<>>, path |-> None, params |-> None, body |-> None],
           call |-> NoCall]

NoInfo == [made |-> FALSE,
           args |-> [method |-> <<>>, path |-> None, params |-> None, body |-> None],
           obj  |-> [method |-> <<>>, path |-> None, params |-> None, body |-> None]]

\* the state after ApiClient(base_url, verify=.., timeout=.., raise_on_error=..)
Constructed(args) ==
    /\ ctor = args
    /\ client = ApiClient_init(args.base_url, args.verify, args.timeout, args.raise_on_error)
    /\ LET r == Requests_init(args.base_url, args.verify, args.timeout, args.raise_on_error)
       IN /\ raise_on_error = r.raise_on_error
          /\ settings = [base_url |-> r.base_url, verify |-> r.verify, timeout |-> r.timeout]
    /\ handler = NoHandler
    /\ calls = <<>>
    /\ waited = <<>>
    /\ phase = "idle"
    /\ single = FALSE
    /\ requests = <<>>
    /\ pc = [i \in Tasks |-> "none"]
    /\ outcome = [i \in Tasks |-> NoOutcome]
    /\ borrowers = {}
    /\ lot = <<>>
    /\ cancelled = FALSE
    /\ pending_excs = <<>>
    /\ responses = <<>>
    /\ sent = [i \in Tasks |-> NoCall]
    /\ at_stop = [i \in Tasks |-> "none"]
    /\ result = NoResult
    /\ info = NoInfo
    /\ api_error = NoApiError
    /\ wire = NoWire

Init == \E args \in DefaultArgs : Constructed(args)

\* the tasks of the running batch
Batch == 1..Len(requests)

\* position of a task as the scheduler sees it: a task whose call has
\* completed but which has not run since is "woken"
position(i) ==
    IF pc[i] = "in_call" /\ outcome[i].kind # "none" THEN "woken" ELSE pc[i]

\* Requests.client_requests up to trio.run, and send_requests up to the end of
\* the nursery body: a fresh AsyncHandler, a fresh limiter and nursery, and
\* one task per descriptor
client_requests(reqs, bare) ==
    /\ phase \in {"idle", "returned", "raised"}
    /\ Len(calls) + (IF phase = "idle" THEN 0 ELSE 1) < MaxCalls
    /\ bare => Len(reqs) = 1
    /\ calls' = IF phase = "idle" THEN calls ELSE Append(calls, phase)
    /\ handler' = AsyncHandler_init(settings.base_url, settings.timeout, settings.verify,
                                    raise_on_error)
    /\ phase' = "running"
    /\ single' = bare
    /\ requests' = reqs
    /\ responses' = new_responses(responses)
    /\ pc' = [i \in Tasks |-> IF i <= Len(reqs) THEN "spawned" ELSE "none"]
    /\ outcome' = [i \in Tasks |-> NoOutcome]
    /\ borrowers' = {}
    /\ lot' = <<>>
    /\ cancelled' = FALSE
    /\ pending_excs' = <<>>
    /\ sent' = [i \in Tasks |-> NoCall]
    /\ at_stop' = [i \in Tasks |-> "none"]
    /\ waited' = <<>>
    /\ result' = NoResult
    /\ UNCHANGED <<raise_on_error, purevars, ctor, client, settings>>

\* make_request, first span: "async with limit" acquires a token or parks
acquire(i) ==
    /\ phase = "running"
    /\ pc[i] = "spawned"
    /\ IF cancelled
       THEN /\ pc' = [pc EXCEPT ![i] = "cancelled"]
            /\ UNCHANGED <<borrowers, lot>>
       ELSE IF can_acquire_nowait(borrowers, lot)
       THEN /\ pc' = [pc EXCEPT ![i] = "acquired"]
            /\ borrowers' = borrowers \cup {i}
            /\ lot' = lot
       ELSE /\ pc' = [pc EXCEPT ![i] = "waiting"]
            /\ lot' = Append(lot, i)
            /\ borrowers' = borrowers
    /\ waited' = IF ~cancelled /\ ~can_acquire_nowait(borrowers, lot)
                 THEN Append(waited, i) ELSE waited
    /\ UNCHANGED <<raise_on_error, phase, single, requests, outcome, cancelled,
                   pending_excs, responses, sent, at_stop, result, purevars,
                   ctor, client, settings, handler, calls>>

\* make_request, second span: the token is held, the transport method is
\* chosen and called; a call entered under a cancelled scope is cancelled at
\* its first checkpoint
enter_call(i) ==
    /\ phase = "running"
    /\ pc[i] \in {"acquired", "unparked"}
    /\ pc' = [pc EXCEPT ![i] = "in_call"]
    /\ sent' = [sent EXCEPT ![i] =
                   transport_call(get_method_by_name(requests[i].method), requests[i])]
    /\ outcome' = [outcome EXCEPT ![i] = entry_outcome(cancelled)]
    /\ waited' = SelectSeq(waited, LAMBDA j : j # i)
    /\ UNCHANGED <<raise_on_error, phase, single, requests, borrowers, lot, cancelled,
                   pending_excs, responses, at_stop, result, purevars,
                   ctor, client, settings, handler, calls>>

\* the transport finishes the call of a blocked task: the task becomes runnable
complete(i, o) ==
    /\ phase = "running"
    /\ pc[i] = "in_call"
    /\ outcome[i].kind = "none"
    /\ outcome' = [outcome EXCEPT ![i] = o]
    /\ UNCHANGED <<raise_on_error, phase, single, requests, pc, borrowers, lot, cancelled,
                   pending_excs, responses, sent, at_stop, result, purevars,
                   ctor, client, settings, handler, calls, waited>>

\* variant: leaving "async with limit" keeps the token
release_kept(b, i) == b

\* the borrowers after task i leaves "async with limit"
release(b, i) == b \ {i}

\* variant: the tasks parked last are woken
parked_first_lifo(l, n) == {l[k] : k \in (Len(l) - n + 1)..Len(l)}

\* the n tasks that parked first: ParkingLot.unpark(count=n) pops them in the
\* order they parked
parked_first(l, n) == {l[k] : k \in 1..n}

\* the tasks CapacityLimiter.release hands a token to when task i leaves
woken_by_release(i) ==
    LET b == release(borrowers, i) IN
    parked_first(lot, wake_count(b, lot))

\* the exception make_request raises for what its call completed with, or
\* NoError when it appends the response
raised_by(i) ==
    LET o == outcome[i] IN
    IF o.kind = "exc"
    THEN IF is_caught(o.exc) THEN CommunicationError(i, o.exc) ELSE Uncaught(i, o.exc)
    ELSE IF raises_api_error(handler.raise_on_error, o.status)
    THEN ApiError(i, o.status, o.content)
    ELSE NoError

\* make_request, last span, for a call that returned or raised: the response
\* is appended or the error raised, the token released; an error reaches the
\* nursery, which records it and cancels its scope, waking every blocked task
\* with Cancelled
finish(i) ==
    /\ phase = "running"
    /\ pc[i] = "in_call"
    /\ outcome[i].kind \in {"response", "exc"}
    /\ LET err   == raised_by(i)
           woken == woken_by_release(i)
           rest  == SelectSeq(lot, LAMBDA j : j \notin woken)
       IN
       /\ borrowers' = release(borrowers, i) \cup woken
       /\ IF err = NoError
          THEN /\ responses' = append_response(responses, i, outcome[i])
               /\ pc' = [j \in Tasks |-> IF j = i THEN "done"
                                         ELSE IF j \in woken THEN "unparked" ELSE pc[j]]
               /\ lot' = rest
               /\ UNCHANGED <<outcome, cancelled, pending_excs, at_stop, waited>>
          ELSE /\ pending_excs' = Append(pending_excs, err)
               /\ cancelled' = TRUE
               /\ pc' = [j \in Tasks |-> IF j = i THEN "failed"
                                         ELSE IF j \in woken THEN "unparked" ELSE pc[j]]
               /\ lot' = <<>>
               /\ outcome' = [j \in Tasks |->
                     IF j # i /\ j \notin woken /\ position(j) \in {"waiting", "in_call"}
                     THEN CancelledOut ELSE outcome[j]]
               /\ at_stop' = IF cancelled THEN at_stop
                             ELSE [j \in Tasks |-> IF j = i THEN "raising" ELSE position(j)]
               /\ waited' = SelectSeq(waited, LAMBDA j : pc[j] # "waiting" \/ j \in woken)
               /\ UNCHANGED responses
    /\ UNCHANGED <<raise_on_error, phase, single, requests, sent, result, purevars,
                   ctor, client, settings, handler, calls>>

\* a task woken with Cancelled unwinds: out of the limiter queue, or out of
\* its call and of "async with limit", which releases its token
unwind(i) ==
    /\ phase = "running"
    /\ pc[i] \in {"waiting", "in_call"}
    /\ outcome[i].kind = "Cancelled"
    /\ LET woken == IF i \in borrowers THEN woken_by_release(i) ELSE {}
       IN
       /\ borrowers' = release(borrowers, i) \cup woken
       /\ lot' = SelectSeq(lot, LAMBDA j : j \notin woken)
       /\ pc' = [j \in Tasks |-> IF j = i THEN "cancelled"
                                 ELSE IF j \in woken THEN "unparked" ELSE pc[j]]
    /\ UNCHANGED <<raise_on_error, phase, single, requests, outcome, cancelled,
                   pending_excs, responses, sent, at_stop, result, purevars,
                   ctor, client, settings, handler, calls, waited>>

\* the nursery block ends when every task has; trio.run returns or raises
\* what the nursery collected (Cancelled is absorbed by the cancel scope; the
\* other exceptions reach the caller bare or in one exception group, which
\* excs stands for), and client_requests returns the responses
nursery_exit ==
    /\ phase = "running"
    /\ \A i \in Batch : pc[i] \in {"done", "failed", "cancelled"}
    /\ IF pending_excs # <<>>
       THEN /\ phase' = "raised"
            /\ result' = [kind |-> "raised", excs |-> pending_excs, value |-> <<>>]
       ELSE /\ phase' = "returned"
            /\ result' = return_value(responses)
    /\ UNCHANGED <<raise_on_error, single, requests, pc, outcome, borrowers, lot, cancelled,
                   pending_excs, responses, sent, at_stop, purevars,
                   ctor, client, settings, handler, calls, waited>>

\* one client_requests call on a client constructed with the default
\* base_url, verify and timeout
Next ==
    \/ \E reqs \in Batches, bare \in BOOLEAN : phase = "idle" /\ client_requests(reqs, bare)
    \/ \E i \in Tasks : acquire(i)
    \/ \E i \in Tasks : enter_call(i)
    \/ \E i \in Tasks, o \in CallOutcomes : complete(i, o)
    \/ \E i \in Tasks : finish(i)
    \/ \E i \in Tasks : unwind(i)
    \/ nursery_exit

Spec == Init /\ [][Next]_vars

\* the batches of a client that makes several calls
ClientBatches == {b \in Batches : Len(b) <= MaxClientBatch}

InitClient == \E args \in AllArgs : Constructed(args)

\* up to MaxCalls calls, one after the other, on a client constructed with
\* any arguments
NextClient ==
    \/ \E reqs \in ClientBatches, bare \in BOOLEAN : client_requests(reqs, bare)
    \/ \E i \in Tasks : acquire(i)
    \/ \E i \in Tasks : enter_call(i)
    \/ \E i \in Tasks, o \in CallOutcomes : complete(i, o)
    \/ \E i \in Tasks : finish(i)
    \/ \E i \in Tasks : unwind(i)
    \/ nursery_exit

SpecClient == InitClient /\ [][NextClient]_vars

\* the batch that parks two tasks
FifoBatches == {[k \in 1..(MaxConcurrency + 2) |-> BatchRequest(k)]}

\* the server answers 200 or refuses the connection
FifoOutcomes == {ResponseOut(200, BodyEmpty), ExcOut("ConnectError")}

\* one call with a batch that exceeds the limiter by two
NextFifo ==
    \/ \E reqs \in FifoBatches : phase = "idle" /\ client_requests(reqs, FALSE)
    \/ \E i \in Tasks : acquire(i)
    \/ \E i \in Tasks : enter_call(i)
    \/ \E i \in Tasks, o \in FifoOutcomes : complete(i, o)
    \/ \E i \in Tasks : finish(i)
    \/ \E i \in Tasks : unwind(i)
    \/ nursery_exit

SpecFifo == Init /\ [][NextFifo]_vars

\* batches of every size, up to one more than the limiter admits
LiveBatches == {[k \in 1..n |-> BatchRequest(k)] : n \in 0..(MaxConcurrency + 1)}

\* the server answers 200 or 400, or refuses the connection
LiveOutcomes == FifoOutcomes \cup {ResponseOut(400, BodyEmpty)}

\* the steps of the task of request i, which the trio scheduler runs whenever
\* the task is runnable
task_step(i) == acquire(i) \/ enter_call(i) \/ finish(i) \/ unwind(i)

\* the transport call of request i returns or raises
call_ends(i) == \E o \in LiveOutcomes : complete(i, o)

NextLive ==
    \/ \E reqs \in LiveBatches : phase = "idle" /\ client_requests(reqs, FALSE)
    \/ \E i \in Tasks : task_step(i)
    \/ \E i \in Tasks : call_ends(i)
    \/ nursery_exit

\* every runnable task is eventually run, every started call eventually
\* ends, and trio.run returns once the nursery has no task left
Fairness ==
    /\ \A i \in Tasks : WF_vars(task_step(i))
    /\ \A i \in Tasks : WF_vars(call_ends(i))
    /\ WF_vars(nursery_exit)

SpecLive == Init /\ [][NextLive]_vars /\ Fairness

----------------------------------------------------------------------------
(* Constructing descriptors *)

\* the caller constructs RequestInfo(method, path, params, body)
new_request_info(method, path, params, body) ==
    /\ info' = [made |-> TRUE,
                args |-> [method |-> method, path |-> path, params |-> params, body |-> body],
                obj  |-> RequestInfo(method, path, params, body)]
    /\ UNCHANGED <<batchvars, api_error, wire>>

NextInfo ==
    \E m \in MethodNames, p \in Paths, q \in Params, b \in Bodies :
        new_request_info(m, p, q, b)

SpecInfo == Init /\ [][NextInfo]_vars

----------------------------------------------------------------------------
(* Constructing errors *)

\* statuses of the responses an ApiError is constructed from
ErrorStatuses == {100, 301, 399, 400, 404, 499, 500, 503, 599, 600}

\* ApiError(str(err), response) for a response with this status and body
new_api_error(status, content) ==
    /\ api_error' = [made |-> TRUE, status |-> status, content |-> content,
                     err |-> ApiError(0, status, content)]
    /\ UNCHANGED <<batchvars, info, wire>>

NextError ==
    \E st \in ErrorStatuses, c \in ResponseBodies : new_api_error(st, c)

SpecError == Init /\ [][NextError]_vars

----------------------------------------------------------------------------
(* Dispatching one descriptor *)

\* send_requests and make_request for one descriptor: the transport method
\* chosen for it and the arguments of the call
dispatch(method, path, params, body) ==
    /\ LET req == RequestInfo(method, path, params, body) IN
       wire' = [made |-> TRUE, req |-> req,
                call |-> transport_call(get_method_by_name(req.method), req)]
    /\ UNCHANGED <<batchvars, info, api_error>>

NextDispatch ==
    \E m \in MethodNames, p \in Paths, q \in Params, b \in Bodies : dispatch(m, p, q, b)

SpecDispatch == Init /\ [][NextDispatch]_vars

----------------------------------------------------------------------------
(* Properties *)

ended == phase \in {"returned", "raised"}

\* the errors the caller of client_requests receives
raised_errors == {result.excs[k] : k \in 1..Len(result.excs)}

\* C1: a batch in which the transport call of a request raised ConnectError,
\* ConnectTimeout or RemoteProtocolError never returns: client_requests
\* raises, the CommunicationError of that call is among what it raises, and
\* no response is handed to the caller, whatever raise_on_error is
C1_TransportErrorFailsBatch ==
    \A i \in Batch :
        (outcome[i].kind = "exc" /\ outcome[i].exc \in CaughtErrors) =>
            /\ phase # "returned"
            /\ result.value = <<>>
            /\ ended => /\ result.kind = "raised"
                        /\ \E e \in raised_errors :
                              /\ e.type = "CommunicationError"
                              /\ e.req = i
                              /\ e.message = outcome[i].exc

\* a batch failed on a transport error after another request had completed
C1_Witness ==
    /\ phase = "raised"
    /\ ~raise_on_error
    /\ Len(responses) >= 1
    /\ \E e \in raised_errors : e.type = "CommunicationError" /\ e.message = "RemoteProtocolError"

\* C2: with raise_on_error true, a batch in which a call returned a response
\* with status 400..599 ends with client_requests raising an ApiError whose
\* status_code is that status and whose error_type is "Client error" up to
\* 499 and "Server error" from 500
C2_StatusFailureClassified ==
    raise_on_error =>
        \A i \in Batch :
            (outcome[i].kind = "response" /\ outcome[i].status \in 400..599) =>
                /\ phase # "returned"
                /\ ended => \E e \in raised_errors :
                              /\ e.type = "ApiError"
                              /\ e.req = i
                              /\ e.status_code = outcome[i].status
                              /\ e.error_type = IF outcome[i].status <= 499
                                                THEN "Client error" ELSE "Server error"

\* C3: with raise_on_error false no ApiError is ever raised, and a batch in
\* which no call raised returns every response, with the status it came with
C3_NoFailFastReturnsAll ==
    ~raise_on_error =>
        /\ \A k \in 1..Len(pending_excs) : pending_excs[k].type # "ApiError"
        /\ (ended /\ \A i \in Batch : outcome[i].kind # "exc") =>
              /\ phase = "returned"
              /\ Len(result.value) = Len(requests)
              /\ \A i \in Batch : \E k \in 1..Len(result.value) :
                    /\ result.value[k].req = i
                    /\ outcome[i].kind = "response"
                    /\ result.value[k].status = outcome[i].status

\* a 4xx and a 2xx response returned side by side
C3_Witness ==
    /\ phase = "returned"
    /\ ~raise_on_error
    /\ \E k, l \in 1..Len(result.value) :
          result.value[k].status = 400 /\ result.value[l].status = 200

\* the tasks inside a transport call
in_flight == {i \in Tasks : pc[i] = "in_call"}

\* C4: the number of tasks inside a transport call never exceeds the
\* capacity of the limiter
C4_ConcurrencyCeiling == Cardinality(in_flight) <= MaxConcurrency

\* the limiter is saturated while a task of the batch waits for a slot
C4_Witness ==
    /\ Cardinality(in_flight) = MaxConcurrency
    /\ \E i \in Tasks : pc[i] = "waiting"
    /\ ~cancelled

\* the tasks that contributed a response
responders == {responses[k].req : k \in 1..Len(responses)}

C6_AsStated ==
    (phase = "raised" /\ pending_excs[1].type \in {"CommunicationError", "ApiError"}) =>
        result.excs = <<pending_excs[1]>>

\* C7: a successful call with one request returns the response itself, a
\* successful call with n >= 2 requests returns a sequence of n responses
C7_SingleOrSequence ==
    phase = "returned" =>
        /\ Len(requests) = 1 => result.kind = "single" /\ Len(result.value) = 1
        /\ Len(requests) >= 2 => result.kind = "list" /\ Len(result.value) = Len(requests)

\* a call with one bare RequestInfo returned the response itself
C7_Witness ==
    /\ phase = "returned"
    /\ single
    /\ result.kind = "single"
    /\ result.value = responses

\* on full success responses holds one response for each descriptor
C8_OnePerDescriptor ==
    phase = "returned" =>
        /\ Len(responses) = Len(requests)
        /\ \A i \in Batch : \E k \in 1..Len(responses) :
              responses[k] = Response(i, outcome[i])

\* responses changes only by the task that leaves its call with a response
\* putting that response at the end
C8_AppendedOnCompletion ==
    responses' # responses =>
        \E i \in Tasks :
            /\ pc[i] = "in_call" /\ outcome[i].kind = "response"
            /\ pc'[i] = "done"
            /\ responses' = Append(responses, Response(i, outcome[i]))

\* C8: on full success the results collection holds exactly one response per
\* descriptor, each appended by the make_request call that received it at the
\* moment that call completed, so that its order is the completion order
C8_CompletionOrder == []C8_OnePerDescriptor /\ [][C8_AppendedOnCompletion]_vars

\* a successful batch whose responses are not in submission order
C8_Witness ==
    /\ phase = "returned"
    /\ Len(responses) = 3
    /\ responses[1].req = 3 /\ responses[3].req = 1

\* s is name in some letter case
is_named(s, name) ==
    /\ Len(s) = Len(name)
    /\ \A k \in 1..Len(name) : s[k] = name[k] \/ s[k] = name[k] + 32

\* C9: a RequestInfo constructed with GET or DELETE in any letter case has
\* body None, and method, path and params as given
C9_GetDeleteDropBody ==
    (info.made /\ (is_named(info.args.method, GET) \/ is_named(info.args.method, DELETE))) =>
        /\ info.obj.body = None
        /\ info.obj.method = info.args.method
        /\ info.obj.path = info.args.path
        /\ info.obj.params = info.args.params

\* a lower-case delete constructed with a body and params
C9_Witness ==
    /\ info.made
    /\ info.args.method = lower(DELETE)
    /\ info.args.body = "body content"
    /\ info.args.params # None
    /\ info.obj.body = None

\* C10: a RequestInfo constructed with any other method has the body given
C10_OtherMethodsKeepBody ==
    (info.made /\ ~is_named(info.args.method, GET) /\ ~is_named(info.args.method, DELETE)) =>
        info.obj.body = info.args.body

\* a POST and an unrecognised method constructed with a body
C10_Witness ==
    /\ info.made
    /\ info.args.method \in {POST, OPTIONS}
    /\ info.args.body = "{key: value}"
    /\ info.obj.body = "{key: value}"

\* the tasks of the current call that appended their response
done_tasks == {i \in Tasks : pc[i] = "done"}

\* C11: in every call on one client, also after calls that returned or
\* raised, the responses of the handler are those of the tasks of this call
\* that completed, one each, and a call that returns hands back one response
\* per descriptor of its own batch
C11_FreshDispatcher ==
    /\ Len(responses) = Cardinality(done_tasks)
    /\ \A k \in 1..Len(responses) :
          /\ responses[k].req \in done_tasks
          /\ responses[k] = Response(responses[k].req, outcome[responses[k].req])
    /\ phase = "returned" =>
          /\ Len(result.value) = Len(requests)
          /\ \A k \in 1..Len(result.value) : result.value[k] \in
                {Response(i, outcome[i]) : i \in Batch}

\* a call returned both of its responses after an earlier call had raised
C11_Witness ==
    /\ calls = <<"raised">>
    /\ phase = "returned"
    /\ Len(requests) = 2
    /\ Len(result.value) = 2

\* C12: the attributes of the client and of its Requests are the constructor
\* arguments in every state, before and after any call, and the handler of
\* every call holds the same four values
C12_ConfigReadOnly ==
    /\ client = [base_url |-> ctor.base_url, verify |-> ctor.verify,
                 timeout |-> ctor.timeout, raise_on_error |-> ctor.raise_on_error]
    /\ settings = [base_url |-> ctor.base_url, verify |-> ctor.verify, timeout |-> ctor.timeout]
    /\ raise_on_error = ctor.raise_on_error
    /\ handler.made =>
          /\ handler.base_url = ctor.base_url
          /\ handler.verify = ctor.verify
          /\ handler.timeout = ctor.timeout
          /\ handler.raise_on_error = ctor.raise_on_error

\* the second call of a client constructed with no default value has ended
C12_Witness ==
    /\ ctor = [base_url |-> "http://test.com", verify |-> TRUE, timeout |-> 5,
               raise_on_error |-> FALSE]
    /\ Len(calls) = 1
    /\ phase = "returned"
    /\ handler.made

\* C13 as stated: no ApiError is ever raised for a response whose status
\* lies outside 400..599, so the classification never takes its last branch
C13_AsStated ==
    \A k \in 1..Len(pending_excs) :
        pending_excs[k].type = "ApiError" =>
            /\ pending_excs[k].status_code \in 400..599
            /\ pending_excs[k].error_type \in {"Client error", "Server error"}

\* the text of a body sample between two positions
body_part(b, from, to) == SubSeq(b, from, to)

\* C14 as stated: the errors attribute of an ApiError is the value of the
\* "errors" key for a JSON object that has one, the whole parsed value for
\* any other JSON, the body as text for a body that is not JSON, and empty
\* for an empty body
C14_AsStated ==
    api_error.made =>
        LET c == api_error.content
            e == api_error.err.errors
        IN /\ api_error.err.type = "ApiError"
           /\ c = BodyErrors => e = [t |-> "str", text |-> body_part(c, 13, 21)]
           /\ c = BodyErrorsList => e = [t |-> "list", text |-> body_part(c, 23, 32)]
           /\ c = BodyMessage => e = [t |-> "dict", text |-> c]
           /\ c = BodyList => e = [t |-> "list", text |-> c]
           /\ c = BodyNumber => e = [t |-> "int", text |-> c]
           /\ c = BodyNull => e = [t |-> "NoneType", text |-> <<>>]
           /\ c \in {BodyText, BodyBroken, BodyLatin1} => e = [t |-> "str", text |-> c]
           /\ c = BodyEmpty => e = [t |-> "str", text |-> <<>>]

\* is this method name one of those whose call is given the body
takes_body(m) == is_named(m, POST) \/ is_named(m, PUT) \/ is_named(m, PATCH)

\* C17: the transport call is given a body exactly when the descriptor's
\* method is POST, PUT or PATCH in any letter case, and then it is the
\* descriptor's body; a call through get or delete is given the path and the
\* params only, whatever the descriptor's body is
C17_BodyOnlyForPostPutPatch ==
    wire.made =>
        /\ (wire.call.json # "absent") <=> takes_body(wire.req.method)
        /\ takes_body(wire.req.method) => wire.call.json = wire.req.body
        /\ wire.call.op \in {"get", "delete"} =>
              /\ wire.call.json = "absent"
              /\ wire.call.params = wire.req.params
              /\ wire.call.path = wire.req.path

C17_Witness ==
    /\ wire.made
    /\ wire.req.method = OPTIONS
    /\ wire.req.body = "body content"
    /\ wire.req.params = "param1=value1"
    /\ wire.call.op = "get"
    /\ wire.call.json = "absent"

\* C18: a descriptor named GET, POST, PUT, PATCH or DELETE in any letter case
\* is dispatched through the transport operation of that name, and a
\* descriptor with any other name through get
C18_MethodSelection ==
    wire.made =>
        LET m == wire.req.method IN
        /\ is_named(m, GET) => wire.call.op = "get"
        /\ is_named(m, POST) => wire.call.op = "post"
        /\ is_named(m, PUT) => wire.call.op = "put"
        /\ is_named(m, PATCH) => wire.call.op = "patch"
        /\ is_named(m, DELETE) => wire.call.op = "delete"
        /\ (\A n \in {GET, POST, PUT, PATCH, DELETE} : ~is_named(m, n)) => wire.call.op = "get"

C18_Witness ==
    /\ wire.made
    /\ wire.req.method \in {OPTIONS, <<>>}
    /\ wire.req.body = None
    /\ wire.call.op = "get"
    /\ wire.call.path = "anything"

\* the tasks inside "async with limit": granted a token and not yet out of
\* the block
in_limited_section == {i \in Tasks : pc[i] \in {"acquired", "unparked", "in_call"}}

\* C15: the tokens held are those of the tasks inside the limited section,
\* one each, whichever way the other tasks left it, and none is held once
\* the batch has ended
C15_SlotsReleased ==
    /\ borrowers = in_limited_section
    /\ Cardinality(borrowers) = Cardinality(in_limited_section)
    /\ \A i \in Tasks : pc[i] \in {"done", "failed", "cancelled"} => i \notin borrowers
    /\ ended => borrowers = {}

\* a batch that ended with a task that succeeded, one that raised and one
\* that was cancelled inside its call
C15_Witness ==
    /\ phase = "raised"
    /\ borrowers = {}
    /\ \E i, j, k \in Batch :
          /\ pc[i] = "done"
          /\ pc[j] = "failed"
          /\ pc[k] = "cancelled" /\ sent[k] # NoCall

\* C16 as stated: a task that waited for a slot never begins its transport
\* call while a task that began waiting before it has not begun its own
C16_AsStated ==
    [][\A i \in Tasks :
          (sent[i] = NoCall /\ sent'[i] # NoCall /\ \E k \in 1..Len(waited) : waited[k] = i)
              => waited[1] = i]_vars

\* is task i in this queue, and where
is_parked(l, i) == \E n \in 1..Len(l) : l[n] = i

index_in(l, i) == CHOOSE n \in 1..Len(l) : l[n] = i

\* C16: slots are granted in the order the tasks began to wait: while tasks
\* are parked, the only task that is granted a slot is the one that parked
\* first, and the tasks behind it keep their order
C16_FifoGrant ==
    [][lot # <<>> =>
          /\ \A i \in Tasks : (i \notin borrowers /\ i \in borrowers') => i = lot[1]
          /\ \A a, b \in 1..Len(lot') :
                (a < b /\ is_parked(lot, lot'[b])) =>
                    /\ is_parked(lot, lot'[a])
                    /\ index_in(lot, lot'[a]) < index_in(lot, lot'[b])]_vars

\* the first of two waiters has been handed a slot and the second is still
\* parked
C16_Witness ==
    /\ Len(waited) = 2
    /\ pc[waited[1]] = "unparked"
    /\ waited[1] \in borrowers
    /\ lot = <<waited[2]>>
    /\ ~cancelled

\* the errors collected by the nursery so far
collected_errors == {pending_excs[k] : k \in 1..Len(pending_excs)}

\* C20: an ApiError is raised only with raise_on_error true and for a request
\* whose call returned a response that is not 2xx, a CommunicationError only
\* for a request whose call raised, and a batch whose calls all returned a
\* 2xx response ends by returning them
C20_NoSpuriousFailure ==
    /\ \A e \in collected_errors \cup raised_errors :
          /\ e.type = "ApiError" =>
                /\ handler.raise_on_error
                /\ raise_on_error
                /\ outcome[e.req].kind = "response"
                /\ outcome[e.req].status \notin 200..299
          /\ e.type = "CommunicationError" =>
                /\ outcome[e.req].kind = "exc"
                /\ outcome[e.req].exc \in TransportErrors
    /\ (\A i \in Batch : outcome[i].kind = "response" /\ outcome[i].status \in 200..299) =>
          /\ pending_excs = <<>>
          /\ ~cancelled
          /\ ended => /\ phase = "returned"
                      /\ Len(result.value) = Len(requests)

\* a batch raised an ApiError and a CommunicationError, each for the call of
\* its own request, while a third call had returned 200
C20_Witness ==
    /\ phase = "raised"
    /\ raise_on_error
    /\ \E e, f \in raised_errors :
          /\ e.type = "ApiError" /\ outcome[e.req].status = 400
          /\ f.type = "CommunicationError" /\ outcome[f.req].exc = "ConnectTimeout"
    /\ \E i \in Batch : outcome[i].kind = "response" /\ outcome[i].status = 200

\* C19: under fair scheduling, and with every started call ending, a running
\* batch of any size ends with client_requests returning or raising, and a
\* task parked for a limiter slot does not stay parked
C19_Terminates ==
    /\ (phase = "running") ~> ended
    /\ \A i \in Tasks : (pc[i] = "waiting") ~> (pc[i] # "waiting")

\* a batch larger than the limiter returned all its responses
C19_Witness ==
    /\ phase = "returned"
    /\ Len(requests) = MaxConcurrency + 1
    /\ Len(result.value) = Len(requests)
    /\ waited = <<>>

\* the tasks whose transport call has returned or raised
completed_calls == {i \in Batch : outcome[i].kind \in {"response", "exc"}}

\* no descriptor has two responses in the results, every response is that of
\* a call that completed, and there are no more responses than such calls
C21_AtMostOneResponse ==
    /\ \A k, l \in 1..Len(responses) : responses[k].req = responses[l].req => k = l
    /\ \A k \in 1..Len(responses) : responses[k].req \in completed_calls
    /\ Len(responses) <= Cardinality(completed_calls)

\* within a batch a task enters a transport call only if it has made none,
\* the call it made is never replaced by another, and the results grow only
\* by one response, that of a task that holds a limiter slot
C21_OneCallAppendInSlot ==
    (phase = "running" /\ phase' = "running") =>
        /\ \A i \in Tasks :
              /\ sent[i] # NoCall => sent'[i] = sent[i]
              /\ (pc[i] # "in_call" /\ pc'[i] = "in_call") => sent[i] = NoCall
              /\ pc[i] \in {"done", "failed", "cancelled"} => pc'[i] = pc[i]
        /\ responses' # responses =>
              \E i \in borrowers :
                  /\ pc[i] = "in_call"
                  /\ responses' = Append(responses, Response(i, outcome[i]))

\* C21: each descriptor starts at most one transport call and contributes at
\* most one response, the results never outnumber the completed calls, and a
\* response is appended only by a task that holds its limiter slot
C21_OneCallOneResponse == []C21_AtMostOneResponse /\ [][C21_OneCallAppendInSlot]_vars

\* one response is in the results while another call has returned and its
\* task, still holding its slot, has not appended yet
C21_Witness ==
    /\ phase = "running"
    /\ Len(responses) = 1
    /\ Cardinality(completed_calls) = 2
    /\ \E i \in borrowers : pc[i] = "in_call" /\ outcome[i].kind = "response"

\* C22: a call with an empty batch starts no task, makes no transport call,
\* collects no error and returns an empty sequence
C22_EmptyBatch ==
    (phase # "idle" /\ Len(requests) = 0) =>
        /\ \A i \in Tasks : sent[i] = NoCall /\ pc[i] = "none"
        /\ pending_excs = <<>>
        /\ responses = <<>>
        /\ phase # "raised"
        /\ phase = "returned" => result.kind = "list" /\ result.value = <<>>

C22_Witness ==
    /\ phase = "returned"
    /\ requests = <<>>
    /\ result.kind = "list"
    /\ result.value = <<>>

====
